---- MODULE Spec2Model ----
(***************************************************************************)
(* NeuroMetric-Live: the calibration progress state machine                *)
(* (CalibrationSystem), the subject selection it reads, and the poll tick  *)
(* of the dashboard (updateDashboard) with the fusion verdict it shows.    *)
(*                                                                         *)
(* Numbers.  progress moves in steps of 1 (a hold) and 0.5 (the penalty    *)
(* timer), so it is always a multiple of 0.5 and is counted here in units  *)
(* of 1/Units = 0.5 point.  percent = progress / targetPoints * 100 is     *)
(* counted in units of 1/PercentScale = 1/3 percent, in which every        *)
(* reachable percentage is a whole number (with targetPoints = 150 one     *)
(* progress unit is exactly one percent unit).  Confidences are counted    *)
(* in tenths.                                                              *)
(***************************************************************************)
EXTENDS Integers, Sequences, FiniteSets, TLC

VARIABLES
    isActive,       \* CalibrationSystem.isActive
    progress,       \* CalibrationSystem.progress, in units of 0.5
    imagePool,      \* CalibrationSystem.imagePool: phase -> list of assets
    initPending,    \* init()'s fetch of /api/calibration-images is in flight
    guideHidden,    \* #calibration-guide carries the class d-none
    timer,          \* #calib-timer innerText: the status directive
    barWidth,       \* #calib-progress style.width, in percent units
    imageSrc,       \* #calib-image-display src
    phase,          \* the phase updateStimuli selected on its last run
    activeSubject,  \* #display-id innerText
    notices,        \* "select a subject first" toasts shown so far
    lastRequest,    \* body of the last POST /api/calibrate-done sent
    lastConfirm,    \* what the last confirm() dialog answered
    requestsSent,   \* POSTs sent since the last successful start()
    completeCalls,  \* complete() invocations since the last successful start()
    lastOp,         \* the CalibrationSystem method called last, and its path
    lastFrame,      \* the arguments the gate of processFrame judged last
    dash,           \* the dashboard elements updateDashboard writes
    lastTick,       \* the /api/live answer of the last poll tick, and its end
    startSubject    \* #display-id when the running session's start() succeeded
                    \* (a record kept by SpecSubject only)

vars == <<isActive, progress, imagePool, initPending, guideHidden, timer,
          barWidth, imageSrc, phase, activeSubject, notices, lastRequest,
          lastConfirm, requestsSent, completeCalls, lastOp, lastFrame, dash,
          lastTick, startSubject>>

(***************************************************************************)
(* Program constants and scales                                            *)
(***************************************************************************)
targetPoints == 150

Units == 2

HoldGain == 1 * Units

DecayStep == 1

Target == targetPoints * Units

PercentScale == 3

ConfScale == 10

ConfThreshold == 5

LearningRate == "0.001"

STANDBY == "STANDBY"

(***************************************************************************)
(* Bounds                                                                  *)
(***************************************************************************)
MaxNotices == 1

MaxDirectCalls == 2

MaxRun == 4

(***************************************************************************)
(* Input domains                                                           *)
(***************************************************************************)
Subjects == {"SUB1", "SUB2"}

\* A label is absent (null / undefined) or a string, held as its characters.
Absent == [present |-> FALSE, chars |-> <<>>]

Str(s) == [present |-> TRUE, chars |-> s]

Neutral == Str(<<"n", "e", "u", "t", "r", "a", "l">>)

NeutralMixed == Str(<<"N", "e", "u", "t", "R", "A", "L">>)

Happy == Str(<<"h", "a", "p", "p", "y">>)

Frame(e, c) == [emotion |-> e, conf |-> c]

\* The frames the callback delivers: label and confidence (in tenths), on
\* both sides of the threshold and with every kind of label.
Frames ==
    { Frame(Neutral, ConfThreshold + 1),
      Frame(NeutralMixed, ConfThreshold + 1),
      Frame(Neutral, ConfThreshold),
      Frame(Happy, ConfThreshold + 1),
      Frame(Str(<<>>), ConfThreshold + 1),
      Frame(Absent, ConfThreshold + 1) }

NoFrame == Frame(Absent, 0)

NoRequest == [subject_id |-> "", apply_update |-> FALSE, learning_rate |-> ""]

Phases == {"focus", "neutral", "relax"}

DefaultPool == [ph \in Phases |-> <<>>]

\* What /api/calibration-images may answer: here two assets for focus, one
\* for neutral and no entry for relax.
PoolResponses ==
    { [focus |-> <<"f1", "f2">>, neutral |-> <<"n1">>] }

InitialSrc == "placeholder"

(***************************************************************************)
(* Input domains of the poll tick: the JSON /api/live answers              *)
(***************************************************************************)
HappyCap == Str(<<"H", "a", "p", "p", "y">>)

Sad == Str(<<"s", "a", "d">>)

\* The string "None", the face classifier's word for no face.
NoneLabel == Str(<<"N", "o", "n", "e">>)

\* data.eeg: absent, or an object whose raw_sample is absent or a list of
\* channel values (two channels stand for the eight).
NoEeg == [present |-> FALSE, hasRaw |-> FALSE, raw |-> <<>>, emotion |-> Absent]

Eeg(raw, e) == [present |-> TRUE, hasRaw |-> TRUE, raw |-> raw, emotion |-> e]

EegNoRaw(e) == [present |-> TRUE, hasRaw |-> FALSE, raw |-> <<>>, emotion |-> e]

EegSamples ==
    { NoEeg,
      EegNoRaw(Happy),
      Eeg(<<>>, Happy),
      Eeg(<<0, 5>>, Happy),
      Eeg(<<5, 0>>, Happy),
      Eeg(<<5, 0>>, Sad) }

\* data.face: absent, or an object whose emotion is absent or a string.
NoFace == [present |-> FALSE, emotion |-> Absent]

Face(e) == [present |-> TRUE, emotion |-> e]

FaceSamples ==
    { NoFace, Face(Absent), Face(Str(<<>>)), Face(NoneLabel), Face(HappyCap),
      Face(Sad) }

\* data.fusion: the backend's fused label and its match flag.
FusionSamples == {[emotion |-> Happy, match |-> m] : m \in BOOLEAN}

\* data.session.subject_id, "" when the answer names no session.
RemoteSessions == {"", "SUB1"}

PollData ==
    [session : RemoteSessions, eeg : EegSamples, face : FaceSamples,
     fusion : FusionSamples]

NoTick ==
    [data    |-> [session |-> "", eeg |-> NoEeg, face |-> NoFace,
                  fusion |-> [emotion |-> Happy, match |-> FALSE]],
     outcome |-> "none"]

(***************************************************************************)
(* Pure helpers of CalibrationSystem                                       *)
(***************************************************************************)
Range(s) == {s[i] : i \in 1..Len(s)}

\* The page defines #calib-image-display; processFrame and updateStimuli
\* return at once when it does not.
ImagePresent == TRUE

\* JavaScript truthiness of a label: null, undefined and "" are falsy.
Truthy(e) == e.present /\ Len(e.chars) > 0

LowerOf ==
    [A |-> "a", E |-> "e", H |-> "h", L |-> "l", N |-> "n", P |-> "p",
     R |-> "r", T |-> "t", U |-> "u", Y |-> "y"]

LowerChar(c) == IF c \in DOMAIN LowerOf THEN LowerOf[c] ELSE c

toLowerCase(s) == [i \in 1..Len(s) |-> LowerChar(s[i])]

\* Mutant of IsHold: the threshold itself passes the gate.
IsHold_AtLeast(faceEmotion, faceConf) ==
    /\ Truthy(faceEmotion)
    /\ toLowerCase(faceEmotion.chars) = <<"n", "e", "u", "t", "r", "a", "l">>
    /\ faceConf >= ConfThreshold

\* The logic gate of processFrame.
IsHold(faceEmotion, faceConf) ==
    /\ Truthy(faceEmotion)
    /\ toLowerCase(faceEmotion.chars) = <<"n", "e", "u", "t", "r", "a", "l">>
    /\ faceConf > ConfThreshold

\* Mutant of Gain: a hold adds no more than the penalty takes.
Gain_Half(p) == p + DecayStep

\* this.progress++ of the hold branch.
Gain(p) == p + HoldGain

\* Mutant of Decay: the guard progress > 0 is missing.
Decay_NoFloor(p) == p - DecayStep

\* Mutant of Decay: the penalty is as large as the gain.
Decay_Full(p) == IF p > 0 THEN p - HoldGain ELSE p

\* The penalty timer: if (this.progress > 0) this.progress -= 0.5.
Decay(p) == IF p > 0 THEN p - DecayStep ELSE p

\* Mutant of Completes: the target itself does not complete.
Completes_Late(p) == p > Target

\* this.progress >= this.targetPoints, the test that calls complete().
Completes(p) == p >= Target

\* (progress / targetPoints) * 100, in percent units.
Percent(p) == (p * 100 * PercentScale) \div (targetPoints * Units)

\* Math.max(0, percent) of the penalty branch.
PausedPercent(p) == IF Percent(p) > 0 THEN Percent(p) ELSE 0

\* Mutant of selectPhase: the boundary 33 belongs to the earlier phase.
selectPhase_Strict33(percent) ==
    IF percent > 33 * PercentScale /\ percent < 66 * PercentScale
    THEN "neutral"
    ELSE IF percent >= 66 * PercentScale THEN "relax" ELSE "focus"

\* The phase updateStimuli picks for a percentage.
selectPhase(percent) ==
    IF percent >= 33 * PercentScale /\ percent < 66 * PercentScale
    THEN "neutral"
    ELSE IF percent >= 66 * PercentScale THEN "relax" ELSE "focus"

PhaseLabel(ph) ==
    CASE ph = "neutral" -> "Phase 2: Maintain Empty Mind"
      [] ph = "relax"   -> "Phase 3: Deep Relaxation"
      [] OTHER          -> "Phase 1: Focus on the Target"

\* Mutant of ProposedSrc: the pool.includes(currentSrc) test is missing, so
\* every update draws again.
ProposedSrc_AlwaysDraws(pool, ph, currentSrc) ==
    IF ph \in DOMAIN pool /\ Len(pool[ph]) > 0
    THEN Range(pool[ph])
    ELSE {currentSrc}

\* The sources the image may show after updateStimuli picked phase ph:
\* any member of a non-empty pool the current source is not in, drawn with
\* Math.random; the current source otherwise.
ProposedSrc(pool, ph, currentSrc) ==
    IF /\ ph \in DOMAIN pool
       /\ Len(pool[ph]) > 0
       /\ currentSrc \notin Range(pool[ph])
    THEN Range(pool[ph])
    ELSE {currentSrc}

(***************************************************************************)
(* Methods called by the entry points                                      *)
(***************************************************************************)
\* updateUI: the status text and the bar width (colours are not modelled).
updateUI(text, percent) ==
    /\ timer' = text
    /\ barWidth' = percent

\* updateStimuli up to its closing updateUI call: the phase and the image.
selectStimulus(percent) ==
    IF ImagePresent
    THEN /\ phase' = selectPhase(percent)
         /\ imageSrc' \in ProposedSrc(imagePool, selectPhase(percent), imageSrc)
    ELSE UNCHANGED <<phase, imageSrc>>

updateStimuli(percent) ==
    /\ selectStimulus(percent)
    /\ IF ImagePresent
       THEN updateUI(PhaseLabel(selectPhase(percent)), percent)
       ELSE UNCHANGED <<timer, barWidth>>

\* Mutant of complete: the session is left active.
complete_StaysActive ==
    /\ isActive' = isActive
    /\ guideHidden' = TRUE
    /\ completeCalls' = completeCalls + 1
    /\ requestsSent' = requestsSent + 1
    /\ \E shouldUpdate \in BOOLEAN :
          /\ lastConfirm' = shouldUpdate
          /\ lastRequest' = [subject_id    |-> activeSubject,
                             apply_update  |-> shouldUpdate,
                             learning_rate |-> LearningRate]

\* Mutant of complete: the POST is sent only when the operator accepts.
complete_OnlyOnAccept ==
    /\ isActive' = FALSE
    /\ guideHidden' = TRUE
    /\ completeCalls' = completeCalls + 1
    /\ \E shouldUpdate \in BOOLEAN :
          /\ lastConfirm' = shouldUpdate
          /\ requestsSent' = IF shouldUpdate THEN requestsSent + 1
                                             ELSE requestsSent
          /\ lastRequest' = IF shouldUpdate
                            THEN [subject_id    |-> activeSubject,
                                  apply_update  |-> shouldUpdate,
                                  learning_rate |-> LearningRate]
                            ELSE lastRequest

\* complete(): the confirm() dialog answers shouldUpdate; the POST is sent
\* whatever the answer.
complete ==
    /\ isActive' = FALSE
    /\ guideHidden' = TRUE
    /\ completeCalls' = completeCalls + 1
    /\ requestsSent' = requestsSent + 1
    /\ \E shouldUpdate \in BOOLEAN :
          /\ lastConfirm' = shouldUpdate
          /\ lastRequest' = [subject_id    |-> activeSubject,
                             apply_update  |-> shouldUpdate,
                             learning_rate |-> LearningRate]

(***************************************************************************)
(* The dashboard elements updateDashboard writes                           *)
(***************************************************************************)
UpperOf ==
    [a |-> "A", d |-> "D", e |-> "E", h |-> "H", n |-> "N", o |-> "O",
     p |-> "P", s |-> "S", y |-> "Y"]

UpperChar(c) == IF c \in DOMAIN UpperOf THEN UpperOf[c] ELSE c

toUpperCase(s) == [i \in 1..Len(s) |-> UpperChar(s[i])]

\* The value of eegActive: data.eeg.raw_sample && data.eeg.raw_sample[0]
\* !== 0.  An absent raw_sample gives undefined; raw_sample[0] of an empty
\* list is undefined, which is !== 0.
EegActive(eeg) ==
    IF ~eeg.hasRaw
    THEN "undefined"
    ELSE IF Len(eeg.raw) = 0 \/ eeg.raw[1] # 0 THEN "true" ELSE "false"

\* The value of faceActive: data.face && data.face.emotion &&
\* data.face.emotion !== "None".  An absent face or emotion gives
\* undefined; "" is falsy and is read as false where a boolean is wanted.
FaceActive(face) ==
    IF ~face.present \/ ~face.emotion.present
    THEN "undefined"
    ELSE IF Len(face.emotion.chars) = 0
    THEN "false"
    ELSE IF face.emotion # NoneLabel THEN "true" ELSE "false"

\* classList.toggle('d-none', force): an undefined force is no force, and
\* the class flips.
Toggle(hidden, force) ==
    IF force = "undefined" THEN ~hidden ELSE force = "true"

\* classList.replace(from, to) on the one background class of the badge.
Replace(cls, from, to) == IF cls = from THEN to ELSE cls

\* The page as served: the waiting panel shown, the sensor overlays shown,
\* no text written yet.
InitialDash ==
    [eegOverlayHidden    |-> FALSE,
     faceOverlayHidden   |-> FALSE,
     faceVal             |-> <<>>,
     faceBlink           |-> FALSE,
     eegLabel            |-> <<>>,
     eegBlink            |-> FALSE,
     fusionActiveHidden  |-> TRUE,
     fusionWaitingHidden |-> FALSE,
     fusionVal           |-> <<>>,
     fusionHB            |-> "",
     fusionBlink         |-> FALSE,
     fusionHBClass       |-> "bg-dark",
     statusBadge         |-> ""]

\* "Update Face UI" and "Update EEG UI".
SensorPanels(d, data, eegActive, faceActive) ==
    [d EXCEPT
       !.eegOverlayHidden  = Toggle(@, eegActive),
       !.faceOverlayHidden = Toggle(@, faceActive),
       !.faceVal   = IF faceActive = "true"
                     THEN toUpperCase(data.face.emotion.chars)
                     ELSE <<"I", "N", "I", "T", ".", ".", ".">>,
       !.faceBlink = (faceActive = "true"),
       !.eegLabel  = IF eegActive = "true"
                     THEN toUpperCase(data.eeg.emotion.chars)
                     ELSE <<"O", "F", "F", "L", "I", "N", "E">>,
       !.eegBlink  = (eegActive = "true")]

\* Mutant of StatusBadge: agreement is read off the two labels.
StatusBadge_ByLabels(data, eegActive, faceActive) ==
    IF eegActive = "true" /\ faceActive = "true"
    THEN IF toUpperCase(data.face.emotion.chars)
              = toUpperCase(data.eeg.emotion.chars)
         THEN "SENSORS AGREE"
         ELSE "DISSENT DETECTED"
    ELSE IF faceActive = "true" THEN "CAMERA ONLY MODE" ELSE "EEG ONLY MODE"

\* "Badge Logic for status": with both sensors active the badge shows the
\* match flag of the fused result.
StatusBadge(data, eegActive, faceActive) ==
    IF eegActive = "true" /\ faceActive = "true"
    THEN IF data.fusion.match THEN "SENSORS AGREE" ELSE "DISSENT DETECTED"
    ELSE IF faceActive = "true" THEN "CAMERA ONLY MODE" ELSE "EEG ONLY MODE"

\* "Update Neural Fusion UI": the panels, the heartbeat and the status
\* badge; with neither sensor active only the panels are switched.
FusionPanel(d, data, eegActive, faceActive) ==
    IF eegActive = "true" \/ faceActive = "true"
    THEN [d EXCEPT
            !.fusionActiveHidden  = FALSE,
            !.fusionWaitingHidden = TRUE,
            !.fusionVal     = toUpperCase(data.fusion.emotion.chars),
            !.fusionHB      = IF eegActive = "true" /\ faceActive = "true"
                              THEN "SYNC" ELSE "AWAITING EEG",
            !.fusionBlink   = (eegActive = "true" /\ faceActive = "true"),
            !.fusionHBClass = IF eegActive = "true" /\ faceActive = "true"
                              THEN Replace(@, "bg-dark", "bg-danger")
                              ELSE Replace(@, "bg-danger", "bg-dark"),
            !.statusBadge   = StatusBadge(data, eegActive, faceActive)]
    ELSE [d EXCEPT !.fusionActiveHidden = TRUE, !.fusionWaitingHidden = FALSE]

(***************************************************************************)
(* Initial state: the object literal and the page as served                *)
(***************************************************************************)
Init ==
    /\ isActive = FALSE
    /\ progress = 0
    /\ imagePool = DefaultPool
    /\ initPending = TRUE
    /\ guideHidden = TRUE
    /\ timer = ""
    /\ barWidth = 0
    /\ imageSrc = InitialSrc
    /\ phase = "focus"
    /\ activeSubject = STANDBY
    /\ notices = 0
    /\ lastRequest = NoRequest
    /\ lastConfirm = FALSE
    /\ requestsSent = 0
    /\ completeCalls = 0
    /\ lastOp = "none"
    /\ lastFrame = NoFrame
    /\ dash = InitialDash
    /\ lastTick = NoTick
    /\ startSubject = ""

(***************************************************************************)
(* Entry points                                                            *)
(***************************************************************************)
\* init(): the answer to the fetch arrives; a failed or rejected fetch
\* leaves the default pool.
init(ok, pool) ==
    /\ initPending
    /\ initPending' = FALSE
    /\ imagePool' = IF ok THEN pool ELSE imagePool
    /\ UNCHANGED <<isActive, progress, guideHidden, timer, barWidth, imageSrc,
                   phase, activeSubject, notices, lastRequest, lastConfirm, requestsSent,
                   completeCalls, lastOp, lastFrame>>
    /\ UNCHANGED <<dash, lastTick, startSubject>>

\* Mutant of startSession: progress is not reset.
startSession_KeepsProgress ==
    /\ isActive' = TRUE
    /\ progress' = progress
    /\ guideHidden' = FALSE
    /\ selectStimulus(0)
    /\ updateUI("Waiting for Neutral Face...", 0)
    /\ requestsSent' = 0
    /\ completeCalls' = 0
    /\ lastOp' = "start"
    /\ UNCHANGED notices

\* start() accepted; the updateUI call after updateStimuli(0) overwrites the
\* status text and the bar width updateStimuli set.
startSession ==
    /\ isActive' = TRUE
    /\ progress' = 0
    /\ guideHidden' = FALSE
    /\ selectStimulus(0)
    /\ updateUI("Waiting for Neutral Face...", 0)
    /\ requestsSent' = 0
    /\ completeCalls' = 0
    /\ lastOp' = "start"
    /\ UNCHANGED notices

\* Mutant of startWhileActive: the isActive guard is missing, so the
\* session restarts.
startWhileActive_Restarts == startSession

\* start() called while a session is active: the first return.
startWhileActive ==
    /\ lastOp' = "start_active"
    /\ UNCHANGED <<isActive, progress, guideHidden, timer, barWidth, imageSrc,
                   phase, notices, requestsSent, completeCalls>>

\* start() with no subject selected: the toast, and the second return.
startWithoutSubject ==
    /\ notices < MaxNotices
    /\ notices' = notices + 1
    /\ lastOp' = "start_nosubject"
    /\ UNCHANGED <<isActive, progress, guideHidden, timer, barWidth, imageSrc,
                   phase, requestsSent, completeCalls>>

start ==
    /\ lastFrame' = NoFrame
    /\ IF isActive
       THEN startWhileActive
       ELSE IF activeSubject = STANDBY
            THEN startWithoutSubject
            ELSE startSession
    /\ UNCHANGED <<imagePool, initPending, activeSubject, lastRequest, lastConfirm>>
    /\ UNCHANGED <<dash, lastTick>>

\* Mutant of FrameIgnored: the isActive guard is missing.
FrameIgnored_ImageOnly == ~ImagePresent

\* The two early returns of processFrame.
FrameIgnored == ~isActive \/ ~ImagePresent

processFrame(faceEmotion, faceConf) ==
    /\ IF FrameIgnored
       THEN /\ lastOp' = "frame_ignored"
            /\ lastFrame' = NoFrame
            /\ UNCHANGED <<isActive, progress, guideHidden, timer, barWidth,
                           imageSrc, phase, lastRequest, lastConfirm, requestsSent,
                           completeCalls>>
       ELSE IF IsHold(faceEmotion, faceConf)
       THEN /\ lastFrame' = Frame(faceEmotion, faceConf)
            /\ progress' = Gain(progress)
            /\ updateStimuli(Percent(Gain(progress)))
            /\ IF Completes(Gain(progress))
               THEN /\ complete
                    /\ lastOp' = "hold_complete"
               ELSE /\ lastOp' = "hold"
                    /\ UNCHANGED <<isActive, guideHidden, lastRequest, lastConfirm,
                                   requestsSent, completeCalls>>
       ELSE /\ lastFrame' = Frame(faceEmotion, faceConf)
            /\ progress' = Decay(progress)
            /\ updateUI("Paused: Keep Face Neutral!",
                        PausedPercent(Decay(progress)))
            /\ lastOp' = "nonhold"
            /\ UNCHANGED <<isActive, guideHidden, imageSrc, phase, lastRequest, lastConfirm,
                           requestsSent, completeCalls>>
    /\ UNCHANGED <<imagePool, initPending, activeSubject, notices>>
    /\ UNCHANGED <<dash, lastTick, startSubject>>

\* What one frame does to the session (isActive, progress), as a function:
\* hold tells which branch of the gate the frame takes.
FrameResult(s, hold) ==
    IF ~s.isActive
    THEN s
    ELSE IF hold
         THEN [isActive |-> ~Completes(Gain(s.progress)),
               progress |-> Gain(s.progress)]
         ELSE [isActive |-> TRUE, progress |-> Decay(s.progress)]

\* n consecutive frames of one kind.
RECURSIVE Run(_, _, _)
Run(s, hold, n) == IF n = 0 THEN s ELSE Run(FrameResult(s, hold), hold, n - 1)

\* At most n consecutive frames of one kind, up to the frame that ends the
\* session (the frames after it are ignored).
RECURSIVE RunActive(_, _, _)
RunActive(s, hold, n) ==
    IF n = 0 \/ ~s.isActive
    THEN s
    ELSE RunActive(FrameResult(s, hold), hold, n - 1)

\* Mutant of stop: the session is torn down through complete().
stop_Completes ==
    /\ complete
    /\ lastOp' = "stop"
    /\ lastFrame' = NoFrame
    /\ UNCHANGED <<progress, imagePool, initPending, timer, barWidth, imageSrc,
                   phase, activeSubject, notices>>
    /\ UNCHANGED <<dash, lastTick, startSubject>>

\* Mutant of stop: the guide is toggled, not hidden.
stop_TogglesGuide ==
    /\ isActive' = FALSE
    /\ guideHidden' = ~guideHidden
    /\ lastOp' = "stop"
    /\ lastFrame' = NoFrame
    /\ UNCHANGED <<progress, imagePool, initPending, timer, barWidth, imageSrc,
                   phase, activeSubject, notices, lastRequest, lastConfirm,
                   requestsSent, completeCalls>>
    /\ UNCHANGED <<dash, lastTick, startSubject>>

\* Mutant of stop: the guide is hidden but the session is left active.
stop_LeavesActive ==
    /\ isActive' = isActive
    /\ guideHidden' = TRUE
    /\ lastOp' = "stop"
    /\ lastFrame' = NoFrame
    /\ UNCHANGED <<progress, imagePool, initPending, timer, barWidth, imageSrc,
                   phase, activeSubject, notices, lastRequest, lastConfirm,
                   requestsSent, completeCalls>>
    /\ UNCHANGED <<dash, lastTick, startSubject>>

\* Mutant of stop: progress is reset as well.
stop_ResetsProgress ==
    /\ isActive' = FALSE
    /\ progress' = 0
    /\ guideHidden' = TRUE
    /\ lastOp' = "stop"
    /\ lastFrame' = NoFrame
    /\ UNCHANGED <<imagePool, initPending, timer, barWidth, imageSrc, phase,
                   activeSubject, notices, lastRequest, lastConfirm, requestsSent,
                   completeCalls>>
    /\ UNCHANGED <<dash, lastTick, startSubject>>

stop ==
    /\ isActive' = FALSE
    /\ guideHidden' = TRUE
    /\ lastOp' = "stop"
    /\ lastFrame' = NoFrame
    /\ UNCHANGED <<progress, imagePool, initPending, timer, barWidth, imageSrc,
                   phase, activeSubject, notices, lastRequest, lastConfirm, requestsSent,
                   completeCalls>>
    /\ UNCHANGED <<dash, lastTick, startSubject>>

\* setActiveSubject: the server's answer arrives; only an ok answer changes
\* the page.
setActiveSubject(sid, ok) ==
    /\ activeSubject' = IF ok THEN sid ELSE activeSubject
    /\ UNCHANGED <<isActive, progress, imagePool, initPending, guideHidden,
                   timer, barWidth, imageSrc, phase, notices, lastRequest, lastConfirm,
                   requestsSent, completeCalls, lastOp, lastFrame>>
    /\ UNCHANGED <<dash, lastTick, startSubject>>

\* complete() called from outside processFrame.
completeCall ==
    /\ completeCalls < MaxDirectCalls
    /\ complete
    /\ lastOp' = "complete"
    /\ lastFrame' = NoFrame
    /\ UNCHANGED <<progress, imagePool, initPending, timer, barWidth, imageSrc,
                   phase, activeSubject, notices>>
    /\ UNCHANGED <<dash, lastTick, startSubject>>

(***************************************************************************)
(* The poll tick                                                           *)
(***************************************************************************)
\* Mutant of updateDashboard: a tick without a live face pauses the
\* calibration as a non-hold frame would, taking the penalty from progress.
updateDashboard_Penalises(data) ==
    /\ activeSubject' = IF data.session # "" /\ activeSubject = STANDBY
                        THEN data.session
                        ELSE activeSubject
    /\ IF ~data.eeg.present
       THEN /\ dash' = dash
            /\ lastTick' = [data |-> data, outcome |-> "error"]
            /\ progress' = progress
       ELSE /\ dash' = FusionPanel(
                          SensorPanels(dash, data, EegActive(data.eeg),
                                       FaceActive(data.face)),
                          data, EegActive(data.eeg), FaceActive(data.face))
            /\ lastTick' = [data |-> data, outcome |-> "done"]
            /\ progress' = IF isActive /\ FaceActive(data.face) # "true"
                           THEN Decay(progress)
                           ELSE progress
    /\ UNCHANGED <<isActive, imagePool, initPending, guideHidden,
                   timer, barWidth, imageSrc, phase, notices, lastRequest,
                   lastConfirm, requestsSent, completeCalls, lastOp, lastFrame,
                   startSubject>>

\* One poll tick, from the arrival of the answer.  A subject activated
\* remotely is adopted while the page shows STANDBY.  Reading
\* data.eeg.raw_sample of an absent data.eeg throws, and the rest of the
\* callback does not run.
updateDashboard(data) ==
    /\ activeSubject' = IF data.session # "" /\ activeSubject = STANDBY
                        THEN data.session
                        ELSE activeSubject
    /\ IF ~data.eeg.present
       THEN /\ dash' = dash
            /\ lastTick' = [data |-> data, outcome |-> "error"]
       ELSE /\ dash' = FusionPanel(
                          SensorPanels(dash, data, EegActive(data.eeg),
                                       FaceActive(data.face)),
                          data, EegActive(data.eeg), FaceActive(data.face))
            /\ lastTick' = [data |-> data, outcome |-> "done"]
    /\ UNCHANGED <<isActive, progress, imagePool, initPending, guideHidden,
                   timer, barWidth, imageSrc, phase, notices, lastRequest,
                   lastConfirm, requestsSent, completeCalls, lastOp, lastFrame,
                   startSubject>>

(***************************************************************************)
(* Specifications                                                          *)
(***************************************************************************)
\* The page's own drivers: the buttons, the frame callback, the answers.
Next ==
    \/ \E ok \in BOOLEAN, pool \in PoolResponses : init(ok, pool)
    \/ start /\ UNCHANGED startSubject
    \/ \E f \in Frames : processFrame(f.emotion, f.conf)
    \/ stop
    \/ \E sid \in Subjects, ok \in BOOLEAN : setActiveSubject(sid, ok)

Spec == Init /\ [][Next]_vars

\* The same, with complete() also callable directly.
NextAPI == Next \/ completeCall

SpecAPI == Init /\ [][NextAPI]_vars

\* The end-to-end scenario: a subject is selected, start() is pressed on
\* the inactive tracker, and every frame that arrives is a hold.
selectSubject ==
    /\ activeSubject = STANDBY
    /\ \E sid \in Subjects : setActiveSubject(sid, TRUE)

startSelected ==
    /\ ~isActive
    /\ activeSubject # STANDBY
    /\ start
    /\ UNCHANGED startSubject

holdFrame ==
    \E f \in Frames :
       /\ IsHold(f.emotion, f.conf)
       /\ processFrame(f.emotion, f.conf)

NextHolds ==
    \/ \E ok \in BOOLEAN, pool \in PoolResponses : init(ok, pool)
    \/ selectSubject
    \/ startSelected
    \/ holdFrame

SpecHolds == Init /\ [][NextHolds]_vars

\* Both drivers of the page together: the buttons and the frame callback of
\* the calibration, and the poll tick, interleaved in any order (each
\* callback runs to its end before the next one starts).
LiveFrames ==
    { Frame(Neutral, ConfThreshold + 1), Frame(Happy, ConfThreshold + 1) }

LiveTicks ==
    { [session |-> "SUB1", eeg |-> Eeg(<<5, 0>>, Happy),
       face |-> Face(HappyCap), fusion |-> [emotion |-> Happy, match |-> TRUE]],
      [session |-> "", eeg |-> Eeg(<<0, 5>>, Happy),
       face |-> NoFace, fusion |-> [emotion |-> Happy, match |-> FALSE]],
      [session |-> "", eeg |-> NoEeg,
       face |-> NoFace, fusion |-> [emotion |-> Happy, match |-> FALSE]] }

NextLive ==
    \/ start /\ UNCHANGED startSubject
    \/ \E f \in LiveFrames : processFrame(f.emotion, f.conf)
    \/ stop
    \/ \E sid \in Subjects : setActiveSubject(sid, TRUE)
    \/ \E data \in LiveTicks : updateDashboard(data)

SpecLive == Init /\ [][NextLive]_vars

\* Subject selection against one session: start() with a record of the
\* subject shown when it succeeded, hold frames, the operator selecting a
\* subject, and the poll tick with its adoption of a remote subject.
startRecorded ==
    /\ start
    /\ startSubject' = IF ~isActive /\ isActive'
                       THEN activeSubject
                       ELSE startSubject

NextSubject ==
    \/ startRecorded
    \/ holdFrame
    \/ \E sid \in Subjects : setActiveSubject(sid, TRUE)
    \/ \E data \in LiveTicks : updateDashboard(data)

SpecSubject == Init /\ [][NextSubject]_vars

\* One session left to run: a subject is selected, start() is pressed,
\* stop() is never pressed, and the frame callback keeps delivering frames
\* (weak fairness: the camera loop calls processFrame again and again).
driftFrame == \E f \in LiveFrames : processFrame(f.emotion, f.conf)

NextDrift ==
    \/ selectSubject
    \/ start /\ UNCHANGED startSubject
    \/ driftFrame

SpecDrift == Init /\ [][NextDrift]_vars /\ WF_vars(driftFrame)

\* The poll driver alone: setInterval(updateDashboard, 150).
NextPoll == \E data \in PollData : updateDashboard(data)

SpecPoll == Init /\ [][NextPoll]_vars

(***************************************************************************)
(* Vocabulary of the properties, stated without the model's helpers        *)
(***************************************************************************)
Min(a, b) == IF a < b THEN a ELSE b

Max(a, b) == IF a > b THEN a ELSE b

NeutralLower == <<"n", "e", "u", "t", "r", "a", "l">>

NeutralUpper == <<"N", "E", "U", "T", "R", "A", "L">>

\* The label is the word neutral in any mix of cases.
EqualsNeutralIgnoringCase(e) ==
    /\ e.present
    /\ Len(e.chars) = Len(NeutralLower)
    /\ \A i \in 1..Len(NeutralLower) :
          e.chars[i] \in {NeutralLower[i], NeutralUpper[i]}

\* The frame is a hold as the specification words it: neutral ignoring
\* case, and confidence strictly above 0.5.
SpecHold(f) ==
    /\ EqualsNeutralIgnoringCase(f.emotion)
    /\ f.conf * 2 > ConfScale

\* w is the bar width of progress p: w / PercentScale = p / Units /
\* targetPoints * 100, cross-multiplied.
IsPercentOf(w, p) == w * Units * targetPoints = p * 100 * PercentScale

\* A step that changes the state is a processFrame call exactly when it
\* leaves a processFrame path in lastOp and leaves alone what the answers
\* of the server change (setActiveSubject, init); lastFrame' is then the
\* frame the gate judged.
FrameStep ==
    /\ lastOp' \in {"frame_ignored", "hold", "hold_complete", "nonhold"}
    /\ activeSubject' = activeSubject
    /\ initPending' = initPending
    /\ UNCHANGED <<dash, lastTick>>

\* The phase of the specification's table for progress p of a session:
\* Focus on [0,33), Neutral on [33,66), Relax on [66,100], applied to
\* p / Units / targetPoints * 100 (cross-multiplied).
TablePhase(p) ==
    IF p * 100 < 33 * targetPoints * Units
    THEN "focus"
    ELSE IF p * 100 < 66 * targetPoints * Units THEN "neutral" ELSE "relax"

\* The steps after which the phase shown is the phase of the current
\* progress: start() and a hold both end in updateStimuli(percent).
StimuliFresh == lastOp \in {"start", "hold", "hold_complete"}

\* A step that changes the state is a stop() call exactly when it leaves
\* "stop" in lastOp and leaves alone what the answers of the server and
\* the poll tick change.
StopStep ==
    /\ lastOp' = "stop"
    /\ activeSubject' = activeSubject
    /\ initPending' = initPending
    /\ UNCHANGED <<dash, lastTick>>

\* A step that changes the state is a direct complete() call exactly when
\* it leaves "complete" in lastOp and leaves alone what the answers of the
\* server and the poll tick change.
CompleteStep ==
    /\ lastOp' = "complete"
    /\ activeSubject' = activeSubject
    /\ initPending' = initPending
    /\ UNCHANGED <<dash, lastTick>>

\* What the claims call the observable state of the tracker.
Observable ==
    <<isActive, progress, guideHidden, requestsSent, completeCalls,
      lastRequest>>

\* The fusion verdict the page shows: Waiting while the waiting panel
\* hides the fusion panel, the word of the status badge otherwise.
Verdict ==
    IF dash.fusionActiveHidden
    THEN "Waiting"
    ELSE CASE dash.statusBadge = "SENSORS AGREE"    -> "BothAgree"
           [] dash.statusBadge = "DISSENT DETECTED" -> "BothDissent"
           [] dash.statusBadge = "CAMERA ONLY MODE" -> "FaceOnly"
           [] dash.statusBadge = "EEG ONLY MODE"    -> "SignalOnly"
           [] OTHER                                 -> "Unset"

\* Liveness as the specification words it: the first raw channel value is
\* present and non-zero; the emotion is present, non-empty and not "None".
SignalLive(data) ==
    /\ data.eeg.present
    /\ data.eeg.hasRaw
    /\ Len(data.eeg.raw) > 0
    /\ data.eeg.raw[1] # 0

FaceLive(data) ==
    /\ data.face.present
    /\ data.face.emotion.present
    /\ Len(data.face.emotion.chars) > 0
    /\ data.face.emotion.chars # <<"N", "o", "n", "e">>

\* Two labels are equal ignoring case.
SameIgnoringCase(a, b) ==
    /\ Len(a) = Len(b)
    /\ \A i \in 1..Len(a) :
          a[i] = b[i] \/ LowerChar(a[i]) = b[i] \/ a[i] = LowerChar(b[i])

\* A poll tick has been handled: its answer is in lastTick.
Ticked == lastTick.outcome # "none"

\* The liveness badge the page shows: the state of #fusion-heartbeat.
Badge ==
    CASE dash.fusionHB = "SYNC"         -> "Synchronized"
      [] dash.fusionHB = "AWAITING EEG" -> "StalePartial"
      [] OTHER                          -> "Unset"

\* The two liveness booleans a poll tick computed from its answer.
TickSignalLive == EegActive(lastTick.data.eeg) = "true"

TickFaceLive == FaceActive(lastTick.data.face) = "true"

\* A step that changes the state ran updateStimuli exactly when it is an
\* accepted start() or a hold: the phase in phase' is the one it selected.
StimuliStep ==
    /\ lastOp' \in {"start", "hold", "hold_complete"}
    /\ activeSubject' = activeSubject
    /\ initPending' = initPending
    /\ UNCHANGED <<dash, lastTick>>

\* The members of the pool of phase ph; none when the pool is empty or
\* the phase has no pool.
PoolOf(ph) ==
    IF ph \in DOMAIN imagePool
    THEN {imagePool[ph][i] : i \in 1..Len(imagePool[ph])}
    ELSE {}

\* A step is a poll tick exactly when it writes the dashboard or the
\* record of the last tick; it is a call of a CalibrationSystem method
\* exactly when it writes one of the tracker's own records.
TickStep == dash' # dash \/ lastTick' # lastTick

CalibrationState ==
    <<isActive, progress, guideHidden, timer, barWidth, imageSrc, phase,
      requestsSent, completeCalls, lastRequest>>

ProcessFrameStep ==
    /\ lastOp' \in {"frame_ignored", "hold", "hold_complete", "nonhold"}
    /\ <<lastOp, lastFrame, CalibrationState>>'
          # <<lastOp, lastFrame, CalibrationState>>

\* A processFrame call that took the hold branch, and one that took the
\* penalty branch.
HoldStep == FrameStep /\ lastOp' \in {"hold", "hold_complete"}

NonHoldStep == FrameStep /\ lastOp' = "nonhold"

\* The frames alternate strictly: a frame is a hold exactly when the call
\* before it was not.
Alternating ==
    FrameStep =>
       ((lastOp' \in {"hold", "hold_complete"}) # (lastOp \in {"hold"}))

\* The order of the phases.
PhaseRank(ph) ==
    CASE ph = "focus" -> 1 [] ph = "neutral" -> 2 [] ph = "relax" -> 3

Session == [isActive |-> isActive, progress |-> progress]

(***************************************************************************)
(* Properties                                                              *)
(***************************************************************************)
\* C1: in every reachable state 0 <= progress <= targetPoints; a hold at
\* 149.5 does not leave progress above targetPoints.
C1_ProgressBounded == 0 <= progress /\ progress <= Target

\* C2: complete() is invoked at most once per session, only by the
\* processFrame call that takes progress from below targetPoints to
\* targetPoints or more, and only from an active session; it is not invoked
\* again until a start() succeeds.
C2_CompleteOncePerSession ==
    [][/\ completeCalls' <= 1
       /\ completeCalls' > completeCalls =>
             /\ FrameStep
             /\ isActive
             /\ ~isActive'
             /\ progress < Target
             /\ progress' >= Target]_vars

\* C2 witness: a frame arrived after the session completed and was ignored.
C2_Witness ==
    /\ completeCalls = 1
    /\ lastOp = "frame_ignored"
    /\ ~isActive
    /\ progress >= Target

\* C3 as stated: after a teardown (stop() or complete()) the session is
\* inactive and progress is 0.
C3_TeardownZeroesProgress ==
    lastOp \in {"stop", "hold_complete"} => (~isActive /\ progress = 0)

\* C3 amended: a teardown leaves the session inactive and leaves progress
\* as it was (stop()) or at the value of targetPoints or more that
\* triggered it (complete()); an inactive session's progress changes only
\* in a successful start(), which sets it to 0.
C3_TeardownKeepsProgress ==
    [][/\ stop => (~isActive' /\ progress' = progress)
       /\ completeCalls' > completeCalls =>
             (~isActive' /\ progress' >= Target)
       /\ (~isActive /\ progress' # progress) =>
             (start /\ isActive' /\ progress' = 0)]_vars

\* C3 witness: stopped in mid-session, progress still above 0.
C3_Witness == lastOp = "stop" /\ ~isActive /\ progress > 0

\* C4 as stated: a frame handled while inactive leaves progress at 0.
C4_IdleFrameProgressZero ==
    lastOp = "frame_ignored" => (~isActive /\ progress = 0)

\* C4 amended: a processFrame call made while the session is inactive
\* changes nothing: progress keeps the value the last session left (0
\* before any session), the session stays inactive, and the status
\* directive, the bar, the phase and the image are untouched.
C4_IdleFrameNoOp ==
    [][(FrameStep /\ ~isActive) =>
             /\ ~isActive'
             /\ progress' = progress
             /\ timer' = timer
             /\ barWidth' = barWidth
             /\ phase' = phase
             /\ imageSrc' = imageSrc
             /\ completeCalls' = completeCalls]_vars

\* C4 witness: a frame was ignored after a session that left progress > 0.
C4_Witness == lastOp = "frame_ignored" /\ ~isActive /\ progress > 0

\* C5: start() is rejected without changing the session (a) while active:
\* progress, image and status directive are untouched; (b) with no subject
\* selected: the session stays inactive, progress is unchanged and only a
\* notice is emitted.
C5_StartRejected ==
    [][/\ (start /\ isActive) =>
             /\ isActive'
             /\ progress' = progress
             /\ imageSrc' = imageSrc
             /\ phase' = phase
             /\ timer' = timer
             /\ barWidth' = barWidth
             /\ notices' = notices
       /\ (start /\ ~isActive /\ activeSubject = STANDBY) =>
             /\ ~isActive'
             /\ progress' = progress
             /\ imageSrc' = imageSrc
             /\ phase' = phase
             /\ timer' = timer
             /\ barWidth' = barWidth
             /\ guideHidden' = guideHidden
             /\ notices' = notices + 1]_vars

\* C5 witness: start() rejected in a running session with progress above 0,
\* after an earlier start() had been rejected for want of a subject.
C5_Witness ==
    /\ lastOp = "start_active"
    /\ isActive
    /\ progress > 0
    /\ notices > 0

\* C6: start() while inactive with a subject selected leaves the session
\* active with progress 0, whatever progress was, and its last status
\* directive is the await-neutral one with percentage 0.
C6_StartResets ==
    [][(start /\ ~isActive /\ activeSubject # STANDBY) =>
          /\ isActive'
          /\ progress' = 0
          /\ timer' = "Waiting for Neutral Face..."
          /\ barWidth' = 0]_vars

\* C6 witness: a session just started after an earlier one had completed.
C6_Witness ==
    /\ lastOp = "start"
    /\ isActive
    /\ progress = 0
    /\ timer = "Waiting for Neutral Face..."
    /\ lastRequest # NoRequest

\* C7: a frame judged by processFrame took the hold branch if and only if
\* its label is neutral ignoring case and its confidence is above 0.5.
C7_HoldGate ==
    lastOp \in {"hold", "hold_complete", "nonhold"} =>
       (lastOp \in {"hold", "hold_complete"} <=> SpecHold(lastFrame))

\* C7 witness: a neutral frame of confidence exactly 0.5 was a non-hold.
C7_Witness ==
    /\ lastOp = "nonhold"
    /\ lastFrame = Frame(Neutral, ConfThreshold)
    /\ ConfThreshold * 2 = ConfScale

C9_NonHoldDecays ==
    [][(FrameStep /\ isActive /\ ~SpecHold(lastFrame')) =>
             /\ progress' * 2 = Max(progress * 2 - Units, 0)
             /\ timer' = "Paused: Keep Face Neutral!"
             /\ IsPercentOf(barWidth', progress')
             /\ isActive'
             /\ imageSrc' = imageSrc
             /\ phase' = phase]_vars

\* C9 witness: after a non-hold the session is active and still shows the
\* neutral phase although progress has decayed below that phase's start.
C9_Witness ==
    /\ lastOp = "nonhold"
    /\ isActive
    /\ progress > 0
    /\ phase = "neutral"
    /\ progress * 100 < 33 * targetPoints * Units

\* C10: from every reachable active state with progress p, N holds and
\* then N non-holds leave progress >= p, and exactly p + N/2 when the
\* holds did not complete the session.
C10_NetDrift ==
    isActive =>
       \A n \in 0..MaxRun :
          LET held  == Run(Session, TRUE, n)
              final == Run(held, FALSE, n)
          IN  /\ final.progress >= progress
              /\ held.isActive => final.progress * 2 = progress * 2 + n * Units

\* C10 witness: an active state with progress above 0 from which MaxRun
\* holds complete the session while one hold does not.
C10_Witness ==
    /\ isActive
    /\ progress > 0
    /\ lastOp \in {"hold", "nonhold"}
    /\ Run(Session, TRUE, 1).isActive
    /\ ~Run(Session, TRUE, MaxRun).isActive

\* C11: the phase shown for a completion percentage is Focus on [0,33),
\* Neutral on [33,66) and Relax on [66,100], the boundaries 33 and 66
\* belonging to the later phase: whenever the stimuli were just updated at
\* a progress between 0 and targetPoints, the phase is the one of this
\* table applied to progress / targetPoints * 100.
C11_PhaseTable ==
    (StimuliFresh /\ progress <= Target) => phase = TablePhase(progress)

\* A hold has brought progress to 49.5, which is 33 percent exactly.
C11_Witness ==
    /\ lastOp = "hold"
    /\ progress * 100 = 33 * targetPoints * Units
    /\ phase = "neutral"

\* C12: from an inactive tracker with a subject selected, start() followed
\* by hold frames and nothing else: the session starts in Focus at progress
\* 0, every hold adds one point and shows the same phase or the next one,
\* never an earlier one, the session stays active below targetPoints, and
\* the hold that reaches targetPoints (the 150th) invokes complete() exactly
\* once and leaves the session inactive at progress == 150 in Relax.
C12_EndToEnd ==
    [][/\ lastOp' = "start" => (progress' = 0 /\ phase' = "focus")
       /\ (FrameStep /\ isActive) =>
             /\ progress' = progress + Units
             /\ PhaseRank(phase') \in {PhaseRank(phase), PhaseRank(phase) + 1}
             /\ completeCalls = 0
             /\ isActive' = (progress' < targetPoints * Units)
             /\ completeCalls' = (IF isActive' THEN 0 ELSE 1)
             /\ requestsSent' = completeCalls'
       /\ lastOp' = "hold_complete" =>
             /\ progress' = targetPoints * Units
             /\ phase' = "relax"
             /\ ~isActive'
       /\ (FrameStep /\ ~isActive) =>
             UNCHANGED <<progress, phase, completeCalls, requestsSent>>]_vars

\* The 150th hold has completed the session.
C12_Witness ==
    /\ lastOp = "hold_complete"
    /\ progress = targetPoints * Units
    /\ completeCalls = 1
    /\ ~isActive
    /\ phase = "relax"

\* C13: under any interleaving of frame callbacks, poll ticks, stop() and
\* start(): stop() leaves the session inactive; a processFrame call handled
\* while the session is inactive does not change progress, does not invoke
\* complete() and does not make the session active; a poll tick does not
\* touch the active flag; and the session becomes active again only in a
\* start() that succeeds, with a subject selected.
C13_NoResurrection ==
    [][/\ lastOp' = "stop" => ~isActive'
       /\ (FrameStep /\ ~isActive) =>
             /\ ~isActive'
             /\ progress' = progress
             /\ completeCalls' = completeCalls
             /\ requestsSent' = requestsSent
       /\ lastTick' # lastTick => isActive' = isActive
       /\ (~isActive /\ isActive') =>
             /\ lastOp' = "start"
             /\ progress' = 0
             /\ activeSubject # STANDBY]_vars

\* A session was stopped at progress > 0 (no completion), a poll tick ran
\* to its end, and a frame was handled afterwards.
C13_Witness ==
    /\ lastOp = "frame_ignored"
    /\ ~isActive
    /\ progress > 0
    /\ completeCalls = 0
    /\ lastTick.outcome = "done"

\* C14: stop() called in an active session, at any progress value, marks
\* the session inactive and has no completion side effect: no confirmation
\* is requested and no completion request is sent.
C14_StopNoCompletion ==
    [][(StopStep /\ isActive) =>
             /\ ~isActive'
             /\ completeCalls' = completeCalls
             /\ requestsSent' = requestsSent
             /\ lastRequest' = lastRequest
             /\ lastConfirm' = lastConfirm]_vars

\* stop() was pressed one hold short of the target.
C14_Witness ==
    /\ lastOp = "stop"
    /\ (progress + Units) = targetPoints * Units
    /\ ~isActive
    /\ completeCalls = 0
    /\ requestsSent = 0

\* C15: stop() is idempotent: stop() on an inactive session, and so the
\* second of two stop() calls in a row, leaves the observable state
\* (active flag, progress, guide visibility, completion requests) as it
\* was.
C15_StopIdempotent ==
    [][(StopStep /\ ~isActive) => Observable' = Observable]_vars

\* stop() was pressed on a session that had already completed.
C15_Witness ==
    /\ lastOp = "stop"
    /\ ~isActive
    /\ guideHidden
    /\ completeCalls = 1
    /\ requestsSent = 1

\* C16: complete() invoked while the session is already inactive (after a
\* stop(), after an earlier complete(), before any start()) has no
\* observable effect: no confirmation is requested and no completion
\* request is sent.
C16_CompleteIdleNoOp ==
    [][(CompleteStep /\ ~isActive) => Observable' = Observable]_vars

\* C17: each invocation of complete() leaves the session inactive and
\* sends exactly one completion request, whose apply_update field is the
\* operator's answer to the confirmation and whose learning_rate is 0.001;
\* the request is sent whether the operator accepts or declines, and it has
\* no field besides the subject, the decision and the learning rate.
C17_CompletionRequest ==
    [][completeCalls' > completeCalls =>
             /\ completeCalls' = completeCalls + 1
             /\ ~isActive'
             /\ requestsSent' = requestsSent + 1
             /\ DOMAIN lastRequest' =
                   {"subject_id", "apply_update", "learning_rate"}
             /\ lastRequest'.apply_update = lastConfirm'
             /\ lastRequest'.learning_rate = "0.001"]_vars

\* The operator declined, and the request was sent all the same.
C17_Witness ==
    /\ lastOp = "hold_complete"
    /\ ~isActive
    /\ ~lastConfirm
    /\ requestsSent = 1
    /\ lastRequest.apply_update = FALSE
    /\ lastRequest.learning_rate = "0.001"

\* C18: after every poll tick the fusion verdict is the one the two
\* liveness booleans of that tick give: neither live Waiting, only the face
\* live FaceOnly, only the signal live SignalOnly, both live BothAgree or
\* BothDissent, whatever the earlier ticks were.
C18_VerdictByLiveness ==
    Ticked =>
       Verdict \in
          (IF SignalLive(lastTick.data) /\ FaceLive(lastTick.data)
           THEN {"BothAgree", "BothDissent"}
           ELSE IF FaceLive(lastTick.data) THEN {"FaceOnly"}
           ELSE IF SignalLive(lastTick.data) THEN {"SignalOnly"}
           ELSE {"Waiting"})

\* C19 as stated: with both modalities live the verdict is BothAgree
\* exactly when the face label and the signal label are equal ignoring
\* case, whatever the match flag says.
C19_LabelsDecide ==
    (Ticked /\ SignalLive(lastTick.data) /\ FaceLive(lastTick.data)) =>
       Verdict = IF SameIgnoringCase(lastTick.data.face.emotion.chars,
                                     lastTick.data.eeg.emotion.chars)
                 THEN "BothAgree"
                 ELSE "BothDissent"

\* C19 amended: with both modalities live the verdict is BothAgree exactly
\* when the match flag of the tick's fused result is set, and BothDissent
\* otherwise; the two labels are not compared.
C19_MatchFlagDecides ==
    (Ticked /\ SignalLive(lastTick.data) /\ FaceLive(lastTick.data)) =>
       Verdict = IF lastTick.data.fusion.match
                 THEN "BothAgree"
                 ELSE "BothDissent"

\* Both live, the labels Happy and happy, the match flag unset: dissent.
C19_Witness ==
    /\ Ticked
    /\ SignalLive(lastTick.data)
    /\ FaceLive(lastTick.data)
    /\ SameIgnoringCase(lastTick.data.face.emotion.chars,
                        lastTick.data.eeg.emotion.chars)
    /\ ~lastTick.data.fusion.match
    /\ Verdict = "BothDissent"

\* C20: after a poll tick that ran to its end each modality is shown live
\* (heartbeat blinking, offline overlay hidden) exactly when its latest
\* sample is live: the signal when the first raw channel value is present
\* and non-zero, an empty or absent raw sample being not live; the face
\* when its emotion is present, non-empty and not "None".
C20_LivenessPredicate ==
    lastTick.outcome = "done" =>
       /\ dash.eegBlink = SignalLive(lastTick.data)
       /\ dash.eegOverlayHidden = SignalLive(lastTick.data)
       /\ dash.faceBlink = FaceLive(lastTick.data)
       /\ dash.faceOverlayHidden = FaceLive(lastTick.data)

\* C21: after every poll tick that ran to its end the liveness badge is a
\* function of the two liveness booleans of that tick: synchronized exactly
\* when both modalities are live on the tick, stale-partial exactly when
\* one is; a tick with neither live does not leave the badge synchronized.
C21_BadgeByLiveness ==
    lastTick.outcome = "done" =>
       /\ (Badge = "Synchronized") = (TickSignalLive /\ TickFaceLive)
       /\ (Badge = "StalePartial") = (TickSignalLive # TickFaceLive)

\* C22: a poll tick whose answer lacks the face sample, the brain-signal
\* sample or both does not end in an error: the missing modality counts
\* as not live and the tick shows the Waiting, FaceOnly or SignalOnly
\* verdict of the modality that is left.
C22_MissingSampleNoError ==
    (Ticked /\ (~lastTick.data.eeg.present \/ ~lastTick.data.face.present)) =>
       /\ lastTick.outcome = "done"
       /\ Verdict = (IF lastTick.data.eeg.present /\ TickSignalLive
                     THEN "SignalOnly"
                     ELSE IF lastTick.data.face.present /\ TickFaceLive
                          THEN "FaceOnly"
                          ELSE "Waiting")

\* C23: when the selector proposes an asset for the selected phase: if the
\* phase's pool is non-empty and the current asset is not in it, the new
\* asset is a member of the pool; if the current asset is in the pool, or
\* the pool is empty or missing, the asset is unchanged and the update
\* runs to its end.  So after a hold whose phase has a non-empty pool the
\* displayed asset is a member of that pool.
C23_AssetSelection ==
    [][StimuliStep =>
          /\ (PoolOf(phase') # {} /\ imageSrc \notin PoolOf(phase')) =>
                imageSrc' \in PoolOf(phase')
          /\ (PoolOf(phase') = {} \/ imageSrc \in PoolOf(phase')) =>
                imageSrc' = imageSrc
          /\ PoolOf(phase') # {} => imageSrc' \in PoolOf(phase')
          /\ lastOp' # "start" => IsPercentOf(barWidth', progress')]_vars

\* A hold entered the neutral phase and the image moved from the focus
\* pool to the neutral pool.
C23_Witness ==
    /\ lastOp = "hold"
    /\ phase = "neutral"
    /\ PoolOf("neutral") # {}
    /\ imageSrc \in PoolOf("neutral")
    /\ imageSrc \notin PoolOf("focus")

\* C24: under every interleaving of the frame callback and the poll tick,
\* a poll tick leaves the active flag, progress and the rest of the
\* calibration state unchanged, and never changes the selected subject of
\* an active session; a processFrame call leaves the fusion verdict, the
\* liveness badge and the other dashboard elements unchanged; and what a
\* frame does to (active, progress) depends on (active, progress) and the
\* frame alone, so the calibration state a sequence of frames reaches does
\* not depend on the poll ticks between them.
C24_DriversIndependent ==
    [][/\ TickStep =>
             /\ CalibrationState' = CalibrationState
             /\ lastOp' = lastOp
             /\ isActive => activeSubject' = activeSubject
       /\ ProcessFrameStep =>
             /\ Verdict' = Verdict
             /\ Badge' = Badge
             /\ dash' = dash
             /\ lastTick' = lastTick
             /\ Session' = FrameResult(Session, SpecHold(lastFrame'))]_vars

\* An active session has progressed by holds while poll ticks came in:
\* a both-live tick set the badge, a later neither-live tick was the last.
C24_Witness ==
    /\ lastOp = "hold"
    /\ isActive
    /\ progress > Units
    /\ lastTick.outcome = "done"
    /\ Verdict = "Waiting"
    /\ Badge = "Synchronized"

\* C25: the subject identity sent in a session's completion request is the
\* subject that was selected when that session's start() succeeded,
\* whatever subject selections (by the operator, or by a poll tick adopting
\* a remote subject) are interleaved with the session's frames.
C25_RequestNamesStartSubject ==
    [][completeCalls' > completeCalls =>
          lastRequest'.subject_id = startSubject]_vars

\* C26: with stop() never called and frames arriving for ever: from every
\* active state targetPoints consecutive holds, or fewer, lead to complete();
\* if from some point on every frame is a hold, an active session
\* eventually completes; and if from some point on the frames alternate
\* strictly between hold and non-hold, it eventually completes as well.
C26_EventuallyCompletes ==
    /\ [](isActive => ~RunActive(Session, TRUE, targetPoints).isActive)
    /\ (<>[][~NonHoldStep]_vars) => (isActive ~> ~isActive)
    /\ (<>[][Alternating]_vars) => (isActive ~> ~isActive)

\* A session with lapses in it has completed: progress passed the target
\* from a half point.
C26_Witness ==
    /\ lastOp = "hold_complete"
    /\ ~isActive
    /\ completeCalls = 1
    /\ progress = targetPoints * Units + 1


====
